---------------------------- MODULE Spec2Model ----------------------------
(***************************************************************************)
(* Model of the Shopify product fetcher of src/main.py: the record         *)
(* normalizer Product.from_dict, the fetch operations of ShopifyAPI        *)
(* (get_products, get_all_products, search_products) against a remote      *)
(* server, and export_to_json with the re-parse of the written file.       *)
(*                                                                         *)
(* Python values are tagged tuples: None, IntVal(n), StrVal(s), with s a   *)
(* sequence of characters.  A Python dict is a function whose DOMAIN is the set of  *)
(* keys that are present.  Text that the code scans (the Link header, the  *)
(* JSON file) is a sequence of lexical atoms.                              *)
(***************************************************************************)
EXTENDS Integers, Sequences, FiniteSets, TLC

VARIABLES
    pc,            \* position of the running operation: idle, loop, returned, raised
    op,            \* the operation called last
    exc,           \* the exception that left the operation ("none" if none)
    status,        \* get_products / get_all_products: the status argument
    limit,         \* get_products / search_products: the limit argument
    query,         \* search_products: the query argument
    page_info,     \* get_all_products: local variable page_info
    all_products,  \* get_all_products: local variable all_products
    result,        \* the list the operation returned (None before it returns)
    requests,      \* the params of the requests issued by the current call
    responses,     \* what each of these requests met
    reported,      \* number of "Error ..." lines printed by the current call
    chain,         \* the server's pages revealed so far, in chain order
    server,        \* which Link headers the server emits
    calls,         \* number of calls made on the client
    raw,           \* from_dict: the raw entry
    product,       \* from_dict: the Product built
    products,      \* export_to_json: the list of Product
    file,          \* export_to_json: the text written
    parsed         \* json.load of the written file

vars == << pc, op, exc, status, limit, query, page_info, all_products, result, requests,
           responses, reported, chain, server, calls, raw, product, products,
           file, parsed >>

fetchVars == << op, status, limit, query, page_info, all_products, result, requests,
                responses, reported, chain, server, calls >>

-----------------------------------------------------------------------------
(* Python values *)

None == << "None" >>
IntVal(n) == << "int", n >>
StrVal(s) == << "str", s >>

\* dict.get(key): the value, None when the key is absent
DictGet(d, key) == IF key \in DOMAIN d THEN d[key] ELSE None

\* dict.get(key, default)
DictGetDefault(d, key, default) == IF key \in DOMAIN d THEN d[key] ELSE default

\* The empty dict
EmptyDict == << >>

RECURSIVE Concat(_)
\* list.extend over a list of lists
Concat(ss) == IF ss = << >> THEN << >> ELSE Head(ss) \o Concat(Tail(ss))

\* The sequences over S of length lo..hi
SeqsOf(S, lo, hi) == UNION { [1..n -> S] : n \in lo..hi }

-----------------------------------------------------------------------------
(* Product and Product.from_dict *)

RequiredFields == { "id", "title", "handle", "vendor", "product_type", "status" }

ProductFields == RequiredFields \cup { "price", "inventory_quantity" }

\* data['id'] ... data['status'] raise KeyError when the key is absent
from_dict_raises(data) == \E k \in RequiredFields : k \notin DOMAIN data

\* Faulty variant: the price of the last variant instead of the first
first_variant_price_last(data) ==
    IF "variants" \in DOMAIN data /\ Len(data["variants"]) > 0
    THEN DictGet(data["variants"][Len(data["variants"])], "price")
    ELSE None

\* The first variant is read only under the guard of line 29
first_variant_price(data) ==
    IF "variants" \in DOMAIN data /\ Len(data["variants"]) > 0
    THEN DictGet(data["variants"][1], "price")
    ELSE None

first_variant_quantity(data) ==
    IF "variants" \in DOMAIN data /\ Len(data["variants"]) > 0
    THEN DictGet(data["variants"][1], "inventory_quantity")
    ELSE None

from_dict(data) ==
    [ id                 |-> data["id"],
      title              |-> data["title"],
      handle             |-> data["handle"],
      vendor             |-> data["vendor"],
      product_type       |-> data["product_type"],
      status             |-> data["status"],
      price              |-> first_variant_price(data),
      inventory_quantity |-> first_variant_quantity(data) ]


-----------------------------------------------------------------------------
(* The raw entries the normalizer is applied to *)

\* Longest variants list of a raw entry
MaxVariants == 2

\* Two payloads; the six required fields of one payload differ pairwise
FieldValue(k, v) ==
    IF k = "id" THEN IntVal(100 + v) ELSE StrVal(<< k, v >>)

\* A variant dict: price and inventory_quantity are each present or absent
VariantDicts ==
    UNION { { [ k \in D |-> IF k = "price" THEN p ELSE q ] :
                p \in { StrVal(<< >>), StrVal(<< "9" >>) },
                q \in { IntVal(0), IntVal(5) } } :
            D \in SUBSET { "price", "inventory_quantity" } }

VariantLists == SeqsOf(VariantDicts, 0, MaxVariants)

\* A raw entry with the keys D
RawEntry(D, v, vs) ==
    [ k \in D |-> IF k = "variants" THEN vs ELSE FieldValue(k, v) ]

RawEntries ==
    { RawEntry(D, v, vs) :
        D \in SUBSET (RequiredFields \cup { "variants" }),
        v \in 1..2, vs \in VariantLists }

-----------------------------------------------------------------------------
(* Initial values of the state that a specification does not use *)

FetchIdle ==
    /\ op = "none" /\ status = "none" /\ limit = 0 /\ query = "none"
    /\ page_info = None /\ all_products = << >> /\ result = None
    /\ requests = << >>
    /\ responses = << >> /\ reported = 0 /\ chain = << >> /\ calls = 0

NormalizeIdle == raw = EmptyDict /\ product = None

ExportIdle == products = << >> /\ file = << >> /\ parsed = << >>

-----------------------------------------------------------------------------
(* Specification of the normalizer: one raw entry, one from_dict call *)

InitNormalize ==
    /\ pc = "idle" /\ exc = "none" /\ server = "none"
    /\ FetchIdle /\ ExportIdle
    /\ raw \in RawEntries
    /\ product = None

NormalizeOk ==
    /\ pc = "idle"
    /\ ~ from_dict_raises(raw)
    /\ product' = from_dict(raw)
    /\ pc' = "returned"
    /\ UNCHANGED << exc, raw, fetchVars, products, file, parsed >>

NormalizeKeyError ==
    /\ pc = "idle"
    /\ from_dict_raises(raw)
    /\ pc' = "raised"
    /\ exc' = "KeyError"
    /\ UNCHANGED << raw, product, fetchVars, products, file, parsed >>

NextNormalize == NormalizeOk \/ NormalizeKeyError

SpecNormalize == InitNormalize /\ [][NextNormalize]_vars

-----------------------------------------------------------------------------
(* export_to_json, json.dump and json.load *)

(* The written file is modelled as the sequence of its objects, each the   *)
(* sequence of its members in the order written, each member a key and the *)
(* JSON lexeme of its value as a sequence of characters.  The brackets,    *)
(* commas and indentation of the text carry no data and are not modelled.  *)

DigitChars == << "0", "1", "2", "3", "4", "5", "6", "7", "8", "9" >>

RECURSIVE IntToText(_)
\* json.dump of an int: its decimal digits, "-" first when negative
IntToText(n) ==
    IF n < 0 THEN << "-" >> \o IntToText(0 - n)
    ELSE IF n < 10 THEN << DigitChars[n + 1] >>
    ELSE IntToText(n \div 10) \o << DigitChars[(n % 10) + 1] >>

RECURSIVE EscapeText(_)
\* json.dump of the characters of a str: quote and backslash are escaped
EscapeText(s) ==
    IF s = << >> THEN << >>
    ELSE (IF Head(s) \in { "\"", "\\" } THEN << "\\", Head(s) >> ELSE << Head(s) >>)
         \o EscapeText(Tail(s))

\* Faulty variant: None is written as the empty string
json_dump_value_blank(v) ==
    IF v = None THEN << "\"", "\"" >>
    ELSE IF v[1] = "int" THEN IntToText(v[2])
    ELSE << "\"" >> \o EscapeText(v[2]) \o << "\"" >>

\* json.dump of one scalar value: None is written as null
json_dump_value(v) ==
    IF v = None THEN << "n", "u", "l", "l" >>
    ELSE IF v[1] = "int" THEN IntToText(v[2])
    ELSE << "\"" >> \o EscapeText(v[2]) \o << "\"" >>

\* The dict appended to products_dict for one product: eight keys, in this order
export_dict(p) ==
    << << "id", p.id >>,
       << "title", p.title >>,
       << "handle", p.handle >>,
       << "vendor", p.vendor >>,
       << "product_type", p.product_type >>,
       << "status", p.status >>,
       << "price", p.price >>,
       << "inventory_quantity", p.inventory_quantity >> >>

\* json.dump(products_dict, f, indent=2, ensure_ascii=False)
json_dump(dicts) ==
    [ i \in 1..Len(dicts) |->
        [ j \in 1..Len(dicts[i]) |->
            [ key |-> dicts[i][j][1], text |-> json_dump_value(dicts[i][j][2]) ] ] ]

\* The text export_to_json writes for the list ps
export_to_json(ps) == json_dump([ i \in 1..Len(ps) |-> export_dict(ps[i]) ])

DigitValue(c) == CHOOSE d \in 0..9 : DigitChars[d + 1] = c

RECURSIVE DigitsToInt(_)
DigitsToInt(t) ==
    IF t = << >> THEN 0
    ELSE 10 * DigitsToInt(SubSeq(t, 1, Len(t) - 1)) + DigitValue(t[Len(t)])

\* json.load of a number lexeme
TextToInt(t) ==
    IF Head(t) = "-" THEN 0 - DigitsToInt(Tail(t)) ELSE DigitsToInt(t)

RECURSIVE UnescapeText(_)
\* json.load of the inside of a string lexeme: a backslash quotes the next character
UnescapeText(t) ==
    IF t = << >> THEN << >>
    ELSE IF Head(t) = "\\" THEN << t[2] >> \o UnescapeText(Tail(Tail(t)))
    ELSE << Head(t) >> \o UnescapeText(Tail(t))

\* json.load of one scalar lexeme
json_load_value(t) ==
    IF t = << "n", "u", "l", "l" >> THEN None
    ELSE IF Head(t) = "\"" THEN StrVal(UnescapeText(SubSeq(t, 2, Len(t) - 1)))
    ELSE IntVal(TextToInt(t))

\* json.load of one object: a dict; of a key written twice the last value stays
json_load_object(members) ==
    [ k \in { members[j].key : j \in 1..Len(members) } |->
        LET last == CHOOSE j \in 1..Len(members) :
                        /\ members[j].key = k
                        /\ \A l \in (j + 1)..Len(members) : members[l].key # k
        IN  json_load_value(members[last].text) ]

\* json.load of the written file: the list of its objects
json_load(text) == [ i \in 1..Len(text) |-> json_load_object(text[i]) ]

-----------------------------------------------------------------------------
(* Specification of the export: one list of products, written and re-parsed *)

\* Longest list of products exported
MaxProducts == 2

ExportTitles == { << >>, << "a", "\"" >>, << "\\", "n" >> }

ExportRecords ==
    { [ id                 |-> i,
        title              |-> StrVal(t),
        handle             |-> StrVal(<< "h" >>),
        vendor             |-> StrVal(<< "v" >>),
        product_type       |-> StrVal(<< >>),
        status             |-> StrVal(<< "active" >>),
        price              |-> p,
        inventory_quantity |-> q ] :
        i \in { IntVal(7), IntVal(120) },
        t \in ExportTitles,
        p \in { None, StrVal(<< >>), StrVal(<< "9", ".", "5" >>) },
        q \in { None, IntVal(0), IntVal(-13) } }

InitExport ==
    /\ pc = "idle" /\ exc = "none" /\ server = "none"
    /\ FetchIdle /\ NormalizeIdle
    /\ products \in SeqsOf(ExportRecords, 0, MaxProducts)
    /\ file = << >> /\ parsed = << >>

\* export_to_json(products, filename)
ExportToJson ==
    /\ pc = "idle"
    /\ file' = export_to_json(products)
    /\ pc' = "written"
    /\ UNCHANGED << exc, fetchVars, raw, product, products, parsed >>

\* The written file is read back with json.load
Reparse ==
    /\ pc = "written"
    /\ parsed' = json_load(file)
    /\ pc' = "returned"
    /\ UNCHANGED << exc, fetchVars, raw, product, products, file >>

NextExport == ExportToJson \/ Reparse

SpecExport == InitExport /\ [][NextExport]_vars

-----------------------------------------------------------------------------
(* Text scanning: the str operations the pagination code applies *)

\* sub in s, for a one-atom sub
Contains(s, atom) == \E i \in 1..Len(s) : s[i] = atom

RECURSIVE Split(_, _)
\* s.split(sep): the parts between the occurrences of sep (at least one part)
Split(s, sep) ==
    IF ~ Contains(s, sep) THEN << s >>
    ELSE LET i == CHOOSE j \in 1..Len(s) :
                      s[j] = sep /\ \A l \in 1..(j - 1) : s[l] # sep
         IN  << SubSeq(s, 1, i - 1) >> \o Split(SubSeq(s, i + 1, Len(s)), sep)

RelNext == "rel=\"next\""
RelPrevious == "rel=\"previous\""
PageInfoEq == "page_info="

\* bool(x) of an Optional[str]
Truthy(x) == x # None /\ x # << >>

\* Line 132: link_header and 'rel="next"' in link_header
has_next(link_header) == Truthy(link_header) /\ Contains(link_header, RelNext)

\* Lines 134-135: the links of the header that contain rel="next", in order
next_links(link_header) ==
    SelectSeq(Split(link_header, ","), LAMBDA link : Contains(link, RelNext))

\* Line 136: link.split('page_info=')[1] raises IndexError with a single part
extract_raises(link) == Len(Split(link, PageInfoEq)) < 2

\* Line 136: link.split('page_info=')[1].split('&')[0].split('>')[0]
extract_page_info(link) ==
    Split(Split(Split(link, PageInfoEq)[2], "&")[1], ">")[1]

-----------------------------------------------------------------------------
(* The remote server *)

\* Most requests one get_all_products call is followed through
MaxRequests == 3

\* Most entries the server delivers over the pages of one call
MaxDelivered == 3

\* Most calls made on one client
MaxCalls == 2

AllKeys == RequiredFields \cup { "variants" }

\* Two well-formed entries and one that lacks the status field
EntryA ==
    RawEntry(AllKeys, 1, << [ price |-> StrVal(<< "9" >>), inventory_quantity |-> IntVal(5) ] >>)
EntryB == RawEntry(RequiredFields, 2, << >>)
EntryBad ==
    RawEntry(AllKeys \ { "status" }, 1, << [ price |-> StrVal(<< "9" >>) ] >>)

FetchEntries == { EntryA, EntryB, EntryBad }

\* The response bodies with at most n entries: no products key, or a list
Bodies(n) ==
    { EmptyDict } \cup { [ k \in { "products" } |-> es ] : es \in SeqsOf(FetchEntries, 0, n) }

NoToken == << "NoToken" >>

\* The continuation tokens the server hands out for the page after page n,
\* and for the page before it
NextToken(n) == [ i \in 1..n |-> "x" ] \o << "=" >>
PreviousToken(n) == << "p" >> \o [ i \in 1..n |-> "x" ]
CommaToken(n) == << "x", "," >> \o [ i \in 1..n |-> "x" ]

UrlBase == "https://shop.myshopify.com/admin/api/2023-10/products.json?"

\* One directive of a Link header: <url>; rel="..."
Directive(rel, token, tokenFirst) ==
    << "<", UrlBase >>
    \o (IF token = NoToken THEN << "limit=250" >>
        ELSE IF tokenFirst THEN << PageInfoEq >> \o token \o << "&", "limit=250" >>
        ELSE << "limit=250", "&", PageInfoEq >> \o token)
    \o << ">", ";", " ", rel >>

\* The Link headers of a page that has a next page, whose token is t
NextHeaders(n, t) ==
    { Directive(RelNext, t, FALSE),
      Directive(RelNext, t, TRUE),
      Directive(RelPrevious, PreviousToken(n), FALSE) \o << ",", " " >>
          \o Directive(RelNext, t, FALSE),
      Directive(RelNext, t, TRUE) \o << ",", " " >>
          \o Directive(RelPrevious, PreviousToken(n), TRUE) }

\* The Link headers of a last page: none, or a previous directive only
LastHeaders(n) == { None, Directive(RelPrevious, PreviousToken(n), FALSE) }

\* What the server may put beside the body of its n-th page: the header and
\* the token under which it serves the page after it
ConformantLinks(n) ==
    { [ link |-> h, token |-> NextToken(n) ] : h \in NextHeaders(n, NextToken(n)) }
    \cup { [ link |-> h, token |-> NoToken ] : h \in LastHeaders(n) }

ArbitraryLinks(n) ==
    ConformantLinks(n)
    \cup { [ link |-> Directive(RelNext, NoToken, FALSE), token |-> NoToken ],
           [ link |-> Directive(RelNext, << >>, FALSE), token |-> << >> ],
           [ link |-> Directive(RelNext, CommaToken(n), FALSE), token |-> CommaToken(n) ] }

Links(n) == IF server = "conformant" THEN ConformantLinks(n) ELSE ArbitraryLinks(n)

RECURSIVE Delivered(_)
\* The number of entries in the pages of a chain
Delivered(c) ==
    IF c = << >> THEN 0
    ELSE Len(DictGetDefault(Head(c).body, "products", << >>)) + Delivered(Tail(c))

\* The pages the server may reveal as its n-th, after the chain c
NewPages(c, n) ==
    { [ body |-> b, link |-> l.link, token |-> l.token ] :
        b \in Bodies(MaxDelivered - Delivered(c)), l \in Links(n) }

\* The place in the chain of the page a request asks for: the first page
\* without page_info, the page after the one that handed the token out,
\* 0 for a token the server never handed out
Position(params) ==
    IF "page_info" \notin DOMAIN params THEN 1
    ELSE IF \E j \in 1..Len(chain) : chain[j].token = params["page_info"]
    THEN 1 + CHOOSE j \in 1..Len(chain) : chain[j].token = params["page_info"]
    ELSE 0

-----------------------------------------------------------------------------
(* ShopifyAPI: the three fetch operations *)

\* The limit get_all_products asks for
AllLimit == 250

\* The largest limit get_products and search_products ask for
MaxLimit == 250

Min(a, b) == IF a < b THEN a ELSE b

Statuses == { "active", "draft" }

Limits == { 1, 50, 250, 251, 1000 }

Queries == { "shirt", "" }

Idle == pc \in { "idle", "returned", "raised" }

\* data.get('products', [])
products_data(body) == DictGetDefault(body, "products", << >>)

\* [Product.from_dict(product) for product in products_data] raises KeyError
normalize_raises(pd) == \E i \in 1..Len(pd) : from_dict_raises(pd[i])

\* [Product.from_dict(product) for product in products_data]
normalize_all(pd) == [ i \in 1..Len(pd) |-> from_dict(pd[i]) ]

\* Faulty variant: the caller's limit is sent as it is
get_products_params_unbounded(lim, st) == [ limit |-> lim, status |-> st ]

\* get_products: params
get_products_params(lim, st) == [ limit |-> Min(lim, MaxLimit), status |-> st ]

\* search_products: params
search_products_params(q, lim) == [ limit |-> Min(lim, MaxLimit), title |-> q ]

\* get_all_products: params of one iteration
get_all_products_params(st, pi) ==
    IF Truthy(pi)
    THEN [ limit |-> AllLimit, status |-> st, page_info |-> pi ]
    ELSE [ limit |-> AllLimit, status |-> st ]

\* break: the loop is left and all_products is returned
Break(ap, pi) ==
    [ pc |-> "returned", exc |-> "none", all_products |-> ap, page_info |-> pi ]

\* Faulty variant: the except clause catches every exception and breaks
Raise_caught(e, ap, pi) == Break(ap, pi)

\* An exception that is no RequestException passes the except clause and
\* leaves the operation
Raise(e, ap, pi) ==
    [ pc |-> "raised", exc |-> e, all_products |-> ap, page_info |-> pi ]

\* The next iteration of while True
Continue(ap, pi) ==
    [ pc |-> "loop", exc |-> "none", all_products |-> ap, page_info |-> pi ]

\* all_products.extend(products)
extend(ap, pd) == ap \o normalize_all(pd)

\* get_all_products: the check for pagination
paginate(link_header, ap, pi) ==
    IF has_next(link_header)
    THEN LET links == next_links(link_header) IN
         IF links = << >> THEN Continue(ap, pi)
         ELSE IF extract_raises(links[1]) THEN Raise("IndexError", ap, pi)
         ELSE Continue(ap, extract_page_info(links[1]))
    ELSE Break(ap, pi)

\* Faulty variant: no break on an empty page
process_response_no_empty_check(page, ap, pi) ==
    LET pd == products_data(page.body) IN
    IF normalize_raises(pd) THEN Raise("KeyError", ap, pi)
    ELSE paginate(page.link, extend(ap, pd), pi)

\* Faulty variant: the except clause returns [] as get_products does
except_clause_empty(ap, pi) == Break(<< >>, pi)

\* get_all_products: except RequestException: the failure is printed, break
except_clause(ap, pi) == Break(ap, pi)

\* get_all_products: the rest of an iteration once the response is a success
process_response(page, ap, pi) ==
    LET pd == products_data(page.body) IN
    IF pd = << >> THEN Break(ap, pi)
    ELSE IF normalize_raises(pd) THEN Raise("KeyError", ap, pi)
    ELSE paginate(page.link, extend(ap, pd), pi)

\* api.get_all_products(status): up to the first request
CallGetAllProducts ==
    /\ Idle
    /\ calls < MaxCalls
    /\ \E st \in Statuses : status' = st
    /\ op' = "get_all_products"
    /\ all_products' = << >>
    /\ page_info' = None
    /\ pc' = "loop"
    /\ exc' = "none" /\ result' = None /\ limit' = 0 /\ query' = "none"
    /\ requests' = << >> /\ responses' = << >> /\ reported' = 0
    /\ chain' = << >>
    /\ calls' = calls + 1
    /\ UNCHANGED << server, raw, product, products, file, parsed >>

\* One iteration whose request ends in a RequestException: a transport error
\* out of requests.get, or a non-2xx status out of raise_for_status
FetchFails ==
    /\ pc = "loop" /\ op = "get_all_products"
    /\ Len(requests) < MaxRequests
    /\ \E kind \in { "transport", "http" } :
          responses' = Append(responses, [ kind |-> kind, pos |-> 0 ])
    /\ requests' = Append(requests, get_all_products_params(status, page_info))
    /\ reported' = reported + 1
    /\ LET out == except_clause(all_products, page_info) IN
         /\ pc' = out.pc
         /\ exc' = out.exc
         /\ all_products' = out.all_products
         /\ page_info' = out.page_info
         /\ result' = out.all_products
    /\ UNCHANGED << op, status, limit, query, chain, server, calls,
                    raw, product, products, file, parsed >>

\* One iteration whose request is answered with a page
FetchPage ==
    /\ pc = "loop" /\ op = "get_all_products"
    /\ Len(requests) < MaxRequests
    /\ LET params == get_all_products_params(status, page_info)
           pos == Position(params)
       IN  /\ pos >= 1
           /\ \E page \in (IF pos <= Len(chain) THEN { chain[pos] }
                                                ELSE NewPages(chain, pos)) :
                LET out == process_response(page, all_products, page_info) IN
                /\ chain' = IF pos <= Len(chain) THEN chain ELSE Append(chain, page)
                /\ requests' = Append(requests, params)
                /\ responses' = Append(responses, [ kind |-> "ok", pos |-> pos ])
                /\ pc' = out.pc
                /\ exc' = out.exc
                /\ all_products' = out.all_products
                /\ page_info' = out.page_info
                /\ result' = IF out.pc = "returned" THEN out.all_products ELSE None
    /\ UNCHANGED << op, status, limit, query, reported, server, calls,
                    raw, product, products, file, parsed >>

\* A call of one of the two single-request operations, up to its request
CallSinglePage(name, lim, st, q) ==
    /\ Idle
    /\ calls < MaxCalls
    /\ op' = name /\ limit' = lim /\ status' = st /\ query' = q
    /\ pc' = "request"
    /\ exc' = "none" /\ result' = None
    /\ page_info' = None /\ all_products' = << >>
    /\ requests' = << >> /\ responses' = << >> /\ reported' = 0
    /\ chain' = << >>
    /\ calls' = calls + 1
    /\ UNCHANGED << server, raw, product, products, file, parsed >>

\* api.get_products(limit, status)
CallGetProducts ==
    \E lim \in Limits, st \in Statuses : CallSinglePage("get_products", lim, st, "none")

\* api.search_products(query, limit)
CallSearchProducts ==
    \E lim \in Limits, q \in Queries : CallSinglePage("search_products", lim, "none", q)

\* The params of the single request of the running operation
single_page_params ==
    IF op = "get_products" THEN get_products_params(limit, status)
    ELSE search_products_params(query, limit)

\* The single request ends in a RequestException: the except clause returns []
SinglePageFails ==
    /\ pc = "request"
    /\ \E kind \in { "transport", "http" } :
          responses' = << [ kind |-> kind, pos |-> 0 ] >>
    /\ requests' = << single_page_params >>
    /\ reported' = reported + 1
    /\ pc' = "returned"
    /\ result' = << >>
    /\ UNCHANGED << op, exc, status, limit, query, page_info, all_products, chain,
                    server, calls, raw, product, products, file, parsed >>

\* The single request is answered with a page
SinglePageAnswered ==
    /\ pc = "request"
    /\ \E page \in NewPages(<< >>, 1) :
          LET pd == products_data(page.body) IN
          /\ chain' = << page >>
          /\ pc' = IF normalize_raises(pd) THEN "raised" ELSE "returned"
          /\ exc' = IF normalize_raises(pd) THEN "KeyError" ELSE "none"
          /\ result' = IF normalize_raises(pd) THEN None ELSE normalize_all(pd)
    /\ requests' = << single_page_params >>
    /\ responses' = << [ kind |-> "ok", pos |-> 1 ] >>
    /\ UNCHANGED << op, status, limit, query, page_info, all_products, reported,
                    server, calls, raw, product, products, file, parsed >>

-----------------------------------------------------------------------------
(* Specification of the fetch operations against any server, and against a *)
(* server whose next directives all carry a page_info token that is not     *)
(* empty and has no comma in it                                             *)

Init ==
    /\ pc = "idle" /\ exc = "none"
    /\ FetchIdle /\ NormalizeIdle /\ ExportIdle
    /\ server \in { "conformant", "arbitrary" }

InitConformant ==
    /\ pc = "idle" /\ exc = "none"
    /\ FetchIdle /\ NormalizeIdle /\ ExportIdle
    /\ server = "conformant"

Next ==
    \/ CallGetAllProducts
    \/ FetchFails
    \/ FetchPage
    \/ CallGetProducts
    \/ CallSearchProducts
    \/ SinglePageFails
    \/ SinglePageAnswered

Spec == Init /\ [][Next]_vars

SpecConformant == InitConformant /\ [][Next]_vars

-----------------------------------------------------------------------------
(* What the server delivered, read off its own record of the call *)

Answered(i) == responses[i].kind = "ok"

\* The page the i-th request was answered with
ServedPage(i) == chain[responses[i].pos]

\* The raw entries of that page, in the order delivered
ServedEntries(i) == products_data(ServedPage(i).body)

\* The server announced a page after the one it served to request i
ServedWithNext(i) == ServedPage(i).token # NoToken

WellFormed(entries) == \A j \in 1..Len(entries) : RequiredFields \subseteq DOMAIN entries[j]

\* The records of the pages served to requests 1..n, page after page, each
\* entry normalized
RecordsOfPages(n) ==
    Concat([ i \in 1..n |->
               [ j \in 1..Len(ServedEntries(i)) |-> from_dict(ServedEntries(i)[j]) ] ])

InGetAll == op = "get_all_products" /\ responses # << >>

\* Every request so far was answered with a non-empty page of well-formed entries
AllPagesGood ==
    \A i \in 1..Len(responses) :
        Answered(i) /\ ServedEntries(i) # << >> /\ WellFormed(ServedEntries(i))

\* Every next directive the server sent carries a page_info parameter
EveryNextHasToken ==
    \A i \in 1..Len(chain) :
        Truthy(chain[i].link) /\ Contains(chain[i].link, RelNext)
            => Contains(chain[i].link, PageInfoEq)

-----------------------------------------------------------------------------
(* Claims *)

\* C1: against a server that delivers N non-empty pages, each but the last
\* with a next marker that carries a token, get_all_products returns the
\* concatenation of the normalized entries of pages 1..N, in page order and
\* entry order, nothing dropped, reordered or deduplicated, after exactly N
\* requests: request i is answered with page i, as long as the page just
\* served announces a next page the call goes on with what it has
\* accumulated, and on the page that announces none it returns.
C1_Concatenation ==
    (InGetAll /\ AllPagesGood /\ EveryNextHasToken) =>
        LET n == Len(responses) IN
        /\ Len(requests) = n
        /\ \A i \in 1..n : responses[i].pos = i
        /\ all_products = RecordsOfPages(n)
        /\ IF ServedWithNext(n)
           THEN pc = "loop" /\ result = None
           ELSE pc = "returned" /\ result = RecordsOfPages(n) /\ n = Len(chain)

\* C2: when the k-th request of get_all_products ends in a transport error or
\* a non-2xx response, the call does not raise, issues no further request and
\* returns the records of the pages of requests 1..k-1, in order (the empty
\* list for k = 1).
C2_FailureReturnsAccumulated ==
    (InGetAll /\ ~ Answered(Len(responses))) =>
        LET k == Len(responses) IN
        /\ pc = "returned" /\ exc = "none"
        /\ Len(requests) = k
        /\ \A i \in 1..(k - 1) : Answered(i)
        /\ result = RecordsOfPages(k - 1)
        /\ (k = 1 => result = << >>)
        /\ reported = 1

\* C2 witness: the third request fails after two pages were accumulated
C2_Witness ==
    /\ InGetAll /\ Len(responses) = 3
    /\ responses[3].kind = "http"
    /\ pc = "returned"
    /\ Len(result) >= 2

\* C3: when an entry of a successfully fetched page lacks a required field,
\* get_products, get_all_products and search_products end with the KeyError
\* propagated: nothing is returned, neither an empty nor a partial list.
C3_MalformedPropagates ==
    (/\ op \in { "get_products", "get_all_products", "search_products" }
     /\ responses # << >>
     /\ Answered(Len(responses))
     /\ ~ WellFormed(ServedEntries(Len(responses)))) =>
        /\ pc = "raised"
        /\ exc = "KeyError"
        /\ result = None

\* C3 witness: get_all_products meets the malformed entry on its second page,
\* with records of the first page accumulated
C3_Witness ==
    /\ InGetAll /\ Len(responses) = 2
    /\ Answered(2)
    /\ ~ WellFormed(ServedEntries(2))
    /\ all_products # << >>
    /\ pc = "raised"

\* C4: for a raw entry with all six required fields from_dict copies the six
\* fields; price and inventory_quantity are those of the first variant, each
\* None when the first variant lacks it, and both None when the variants
\* list is absent or empty.
C4_FromDict ==
    (pc = "returned") =>
        /\ \A k \in RequiredFields : product[k] = raw[k]
        /\ DOMAIN product = ProductFields
        /\ IF "variants" \in DOMAIN raw /\ raw["variants"] # << >>
           THEN LET first == raw["variants"][1] IN
                /\ product.price =
                      (IF "price" \in DOMAIN first THEN first["price"] ELSE None)
                /\ product.inventory_quantity =
                      (IF "inventory_quantity" \in DOMAIN first
                       THEN first["inventory_quantity"] ELSE None)
           ELSE product.price = None /\ product.inventory_quantity = None

\* C4 witness: the first variant has a quantity and no price, the second
\* variant has a price
C4_Witness ==
    /\ pc = "returned"
    /\ "variants" \in DOMAIN raw
    /\ Len(raw["variants"]) = 2
    /\ DOMAIN raw["variants"][1] = { "inventory_quantity" }
    /\ "price" \in DOMAIN raw["variants"][2]
    /\ product.price = None
    /\ product.inventory_quantity = IntVal(0)

\* C5: get_products and search_products issue exactly one request whatever
\* the outcome; the limit sent is min(limit, 250); a failed request gives the
\* empty list without raising; an answered one gives the normalized entries
\* of the page in the order delivered.
C5_SingleRequest ==
    (op \in { "get_products", "search_products" }) =>
        /\ pc = "request" => requests = << >>
        /\ pc # "request" =>
              /\ Len(requests) = 1 /\ Len(responses) = 1
              /\ requests[1].limit = (IF limit <= 250 THEN limit ELSE 250)
              /\ requests[1].limit <= 250
              /\ "page_info" \notin DOMAIN requests[1]
              /\ op = "get_products" => requests[1].status = status
              /\ op = "search_products" => requests[1].title = query
              /\ ~ Answered(1) =>
                    pc = "returned" /\ result = << >> /\ exc = "none" /\ reported = 1
              /\ (Answered(1) /\ WellFormed(ServedEntries(1))) =>
                    /\ pc = "returned" /\ exc = "none" /\ reported = 0
                    /\ result = RecordsOfPages(1)

\* C5 witness: search_products with limit 1000 sends limit 250 and returns the
\* two different entries of the page
C5_Witness ==
    /\ op = "search_products" /\ pc = "returned"
    /\ limit = 1000
    /\ requests[1].limit = 250
    /\ Answered(1)
    /\ Len(result) = 2
    /\ result[1] # result[2]

C7_TokenPassedOn ==
    (op = "get_all_products") =>
        /\ \A k \in 1..Len(requests) :
              /\ requests[k].limit = 250
              /\ requests[k].status = status
              /\ DOMAIN requests[k] \subseteq { "limit", "status", "page_info" }
        /\ requests # << >> => "page_info" \notin DOMAIN requests[1]
        /\ \A k \in 1..(Len(requests) - 1) :
              (/\ Answered(k) /\ ServedEntries(k) # << >>
               /\ WellFormed(ServedEntries(k)) /\ ServedWithNext(k)) =>
                 /\ "page_info" \in DOMAIN requests[k + 1]
                 /\ requests[k + 1].page_info = ServedPage(k).token

\* C8: a successful response with an empty page (no products key, or an
\* empty list) ends the loop as a success, next marker or not: the call
\* returns the records of the earlier pages.
C8_EmptyPageEnds ==
    (InGetAll /\ Answered(Len(responses)) /\ ServedEntries(Len(responses)) = << >>) =>
        /\ pc = "returned" /\ exc = "none" /\ reported = 0
        /\ Len(requests) = Len(responses)
        /\ result = RecordsOfPages(Len(responses) - 1)

\* C8 witness: the second page has no products key and a next marker
C8_Witness ==
    /\ InGetAll /\ Len(responses) = 2
    /\ Answered(2)
    /\ ServedPage(2).body = EmptyDict
    /\ ServedWithNext(2)
    /\ result # << >>
    /\ pc = "returned"

\* C9: against a finite chain of pages whose next markers carry a
\* continuation token, whatever the token's value, get_all_products goes on
\* to return and never requests again a page it has already received.
C9_NeverRerequests ==
    (op = "get_all_products" /\ EveryNextHasToken) =>
        \A i, j \in 1..Len(responses) :
            (i < j /\ Answered(i) /\ Answered(j)) => responses[i].pos # responses[j].pos

\* C10: get_all_products raises only on a missing required field: when every
\* delivered entry has the six required fields it returns a list and does
\* not raise, whatever the responses and their Link headers.
C10_RaisesOnlyOnMalformed ==
    (/\ op = "get_all_products"
     /\ \A i \in 1..Len(responses) : Answered(i) => WellFormed(ServedEntries(i))) =>
        pc # "raised"

=============================================================================
